---- MODULE Spec2Model ----
(***************************************************************************)
(* Model of the karllm provisioning scripts src/setup_clean.py and         *)
(* src/setup.py.  One run of a script is a walk of pc through the steps of *)
(* its main(); the filesystem (key files, config file, checkout, venv)     *)
(* persists from run to run.  The environment (platform, environment       *)
(* variables, search path, argv, typed input, exit status of every         *)
(* external command) is chosen nondeterministically where the code reads   *)
(* it.  The values of HOME and XDG_CONFIG_HOME are held fixed across runs, *)
(* so config_dir and home name the same directories in every run.          *)
(***************************************************************************)
EXTENDS Integers, Sequences, FiniteSets, TLC

\* ---------------------------------------------------------------- bounds
MaxRuns == 2
MaxLen == 2

\* ------------------------------------------------------------- constants
Scripts == {"setup_clean", "setup"}
REQUIRED_COMMANDS == {"git", "python3", "uv", "openssl"}
system_deps == {"git", "openssl", "cargo", "uv"}
Platforms == {"Linux", "Darwin", "Windows", "Other"}
EnvVars == {"XDG_CONFIG_HOME", "HOME"}

\* characters a user can type: "a" stands for the characters of the class
\* [A-Za-z0-9_], " " for whitespace and "-" for every other character
WordChars == {"a"}
Whitespace == {" "}
Alphabet == WordChars \cup Whitespace \cup {"-"}
Strings == UNION {[1..n -> Alphabet] : n \in 0..MaxLen}

\* sys.argv: no flag, the flag as last argument, or the flag and a value
NoLine == << "\n" >>

NoFlag == [flag |-> FALSE, hasValue |-> FALSE, value |-> <<>>]
Argvs == {NoFlag, [flag |-> TRUE, hasValue |-> FALSE, value |-> <<>>]}
         \cup {[flag |-> TRUE, hasValue |-> TRUE, value |-> s] : s \in Strings}

\* ---------------------------------------------------------- pure helpers
RECURSIVE LStrip(_)
LStrip(s) ==
  IF s = <<>> THEN s
  ELSE IF Head(s) \in Whitespace THEN LStrip(Tail(s)) ELSE s

RECURSIVE RStrip(_)
RStrip(s) ==
  IF s = <<>> THEN s
  ELSE IF s[Len(s)] \in Whitespace THEN RStrip(SubSeq(s, 1, Len(s) - 1)) ELSE s

\* str.strip()
strip(s) == RStrip(LStrip(s))

\* a plausible slip: match() instead of fullmatch(), only the first
\* character is looked at by the anchor
fullmatch_prefix(s) == Len(s) > 0 /\ s[1] \in WordChars

\* re.fullmatch(r"[A-Za-z0-9_]+", s)
fullmatch(s) == Len(s) > 0 /\ \A i \in 1..Len(s) : s[i] \in WordChars

Names == {strip(s) : s \in {t \in Strings : fullmatch(strip(t))}}

\* filesystem paths
PrivPath(u) == [dir |-> "config_dir", file |-> u, ext |-> "priv"]
PubPath(u) == [dir |-> "config_dir", file |-> u, ext |-> "pub"]
ConfigDir == [dir |-> "config_root", file |-> <<>>, ext |-> "karllm"]
ConfPath == [dir |-> "config_dir", file |-> <<>>, ext |-> "karllm.conf"]
RepoPath == [dir |-> "home", file |-> <<>>, ext |-> "karllm-client"]
VenvPath == [dir |-> "karllm-client", file |-> <<>>, ext |-> ".venv"]

NoConf == [username |-> <<"-">>, secret |-> ConfigDir, saveInteraction |-> FALSE]

\* the order in which main() calls the steps
Pipeline(s) ==
  IF s = "setup_clean"
  THEN << "normalize_env", "bootstrap_dependencies", "assert_env_vars",
          "assert_commands_exist", "ensure_python_version", "get_username",
          "ensure_config_dir", "generate_keypair", "write_config_file",
          "clone_repo", "setup_venv", "install_requirements", "complete" >>
  ELSE << "normalize_env", "bootstrap_dependencies", "assert_env_vars",
          "clone_repo", "setup_venv", "install_requirements", "get_username",
          "ensure_config_dir", "generate_keypair", "write_config_file",
          "complete" >>

IndexOf(seq, x) == CHOOSE i \in 1..Len(seq) : seq[i] = x
After(s, step) == Pipeline(s)[IndexOf(Pipeline(s), step) + 1]

\* ------------------------------------------------------------------ state
VARIABLES
  script,      \* which script this run executes
  run,         \* number of runs started so far
  pc,          \* the step about to execute; "idle" before a run, "exit" after
  platform,    \* platform.system() of this run
  environ,     \* names of the environment variables that are set
  path,        \* the probed tools that shutil.which resolves
  missing0,    \* required tools not resolvable when the run first probed
  argv,        \* the command line of this run
  stdin,       \* the line typed at the prompt and not yet read
  uname,       \* the username get_username returned
  steps,       \* the steps entered in this run, in order
  cmds,        \* external commands invoked in this run
  writes,      \* paths written in this run
  overwritten, \* paths that existed when this run wrote them
  remediation, \* tools for which a remediation line was printed
  files,       \* paths that exist
  confData,    \* content of karllm.conf
  completed,   \* usernames of the earlier runs that reported success
  cleanStart,  \* this run started without key files, config and checkout
  exitCode,    \* process exit status
  final,       \* "none", "complete", "interrupted" or "error"
  failure      \* what made the run fail

vars == << script, run, pc, platform, environ, path, missing0, argv, stdin,
           uname, steps, cmds, writes, overwritten, remediation, files,
           confData, completed, cleanStart, exitCode, final, failure >>

fsVars == << files, confData >>
envVars == << platform, environ, path, missing0 >>
userVars == << argv, stdin, uname >>
logVars == << cmds, writes, overwritten, remediation >>

Init ==
  /\ script = "setup_clean"
  /\ run = 0
  /\ pc = "idle"
  /\ platform = "Linux"
  /\ environ = {}
  /\ path = {}
  /\ missing0 = {}
  /\ argv = NoFlag
  /\ stdin = NoLine
  /\ uname = <<>>
  /\ steps = <<>>
  /\ cmds = {}
  /\ writes = {}
  /\ overwritten = {}
  /\ remediation = {}
  /\ files = {}
  /\ confData = NoConf
  /\ completed = {}
  /\ cleanStart = TRUE
  /\ exitCode = 0
  /\ final = "none"
  /\ failure = "none"


\* ---------------------------------------------------------- step helpers
\* the process ends: sys.exit, exit(1), an uncaught exception, or the end
\* of the __main__ block
Exit(code, fin, why) ==
  /\ pc' = "exit"
  /\ exitCode' = code
  /\ final' = fin
  /\ failure' = why

\* the step returned normally; main() goes on to its next call
Goto(step) ==
  /\ pc' = After(script, step)
  /\ UNCHANGED << exitCode, final, failure >>

Enter(step) == steps' = Append(steps, step)

\* the paths in W are created or truncated by this step
Write(W) ==
  /\ files' = files \cup W
  /\ writes' = writes \cup W
  /\ overwritten' = overwritten \cup (W \cap files)

Provisioned(u) == {PrivPath(u), PubPath(u), ConfPath, RepoPath}
AllProvisioned == UNION {Provisioned(u) : u \in Names}
Range(seq) == {seq[i] : i \in 1..Len(seq)}

\* the operator starts one of the two scripts
StartRun ==
  /\ pc \in {"idle", "exit"}
  /\ run < MaxRuns
  /\ \E s \in Scripts : script' = s /\ pc' = Pipeline(s)[1]
  /\ run' = run + 1
  /\ platform' = "Linux"
  /\ environ' = {}
  /\ path' = {}
  /\ missing0' = {}
  /\ argv' = NoFlag
  /\ stdin' = NoLine
  /\ uname' = <<>>
  /\ steps' = <<>>
  /\ cmds' = {}
  /\ writes' = {}
  /\ overwritten' = {}
  /\ remediation' = {}
  /\ cleanStart' = (files \cap AllProvisioned = {})
  /\ completed' = IF final = "complete" THEN completed \cup {uname}
                  ELSE completed
  /\ exitCode' = 0
  /\ final' = "none"
  /\ failure' = "none"
  /\ UNCHANGED << files, confData >>

\* ---------------------------------------------------------------- steps
normalize_env ==
  /\ pc = "normalize_env"
  /\ Enter("normalize_env")
  /\ \E p \in Platforms, e \in SUBSET EnvVars :
       /\ platform' = p
       /\ IF p = "Windows"
          THEN /\ environ' = e \cup {"HOME", "XDG_CONFIG_HOME"}
               /\ Goto("normalize_env")
          ELSE IF p \in {"Darwin", "Linux"}
          THEN IF "XDG_CONFIG_HOME" \in e
               THEN environ' = e /\ Goto("normalize_env")
               ELSE IF "HOME" \in e
               THEN /\ environ' = e \cup {"XDG_CONFIG_HOME"}
                    /\ Goto("normalize_env")
               ELSE environ' = e /\ Exit(1, "error", "KeyError")
          ELSE environ' = e /\ Exit(1, "error", "UnsupportedPlatform")
  /\ UNCHANGED << script, run, path, missing0, userVars, logVars, fsVars,
                  completed, cleanStart >>

\* setup_clean.py: installs uv with pip when it is not on the search path
bootstrap_dependencies_clean ==
  /\ pc = "bootstrap_dependencies"
  /\ script = "setup_clean"
  /\ Enter("bootstrap_dependencies")
  /\ \E p \in SUBSET REQUIRED_COMMANDS :
       /\ missing0' = REQUIRED_COMMANDS \ p
       /\ IF "uv" \in p
          THEN path' = p /\ cmds' = cmds /\ Goto("bootstrap_dependencies")
          ELSE /\ cmds' = cmds \cup {"pip install uv"}
               /\ \E ok \in BOOLEAN, onPath \in BOOLEAN :
                    IF ok
                    THEN /\ path' = IF onPath THEN p \cup {"uv"} ELSE p
                         /\ Goto("bootstrap_dependencies")
                    ELSE /\ path' = p
                         /\ Exit(1, "error", "CalledProcessError")
  /\ UNCHANGED << script, run, platform, environ, userVars, writes,
                  overwritten, remediation, fsVars, completed, cleanStart >>

\* a plausible slip: is_all_good is never cleared
bootstrap_ok_always(missing) == TRUE

\* the value bootstrap_dependencies of setup.py returns
bootstrap_ok(missing) == missing = {}

\* setup.py: prints the install command of every missing dependency; main
\* exits with status 1 when one was missing
bootstrap_dependencies_setup ==
  /\ pc = "bootstrap_dependencies"
  /\ script = "setup"
  /\ Enter("bootstrap_dependencies")
  /\ \E p \in SUBSET system_deps :
       /\ path' = p
       /\ missing0' = system_deps \ p
       /\ remediation' = system_deps \ p
       /\ IF bootstrap_ok(system_deps \ p)
          THEN Goto("bootstrap_dependencies")
          ELSE Exit(1, "error", "MissingSystemTool")
  /\ UNCHANGED << script, run, platform, environ, userVars, cmds, writes,
                  overwritten, fsVars, completed, cleanStart >>

assert_env_vars ==
  /\ pc = "assert_env_vars"
  /\ Enter("assert_env_vars")
  /\ IF EnvVars \subseteq environ
     THEN Goto("assert_env_vars")
     ELSE Exit(1, "error", "EnvironmentVariableMissing")
  /\ UNCHANGED << script, run, envVars, userVars, logVars, fsVars, completed,
                  cleanStart >>

\* setup_clean.py only.  On Linux get_linux_package_manager reads
\* /etc/os-release; when the file is absent its handler calls str.contains,
\* which does not exist, and the AttributeError ends the run before the
\* remediation lines are printed.
assert_commands_exist ==
  /\ pc = "assert_commands_exist"
  /\ Enter("assert_commands_exist")
  /\ LET missing == REQUIRED_COMMANDS \ path IN
       IF missing = {}
       THEN remediation' = remediation /\ Goto("assert_commands_exist")
       ELSE \E osRelease \in BOOLEAN :
              IF platform = "Linux" /\ ~osRelease
              THEN /\ remediation' = remediation
                   /\ Exit(1, "error", "AttributeError")
              ELSE /\ remediation' = missing
                   /\ Exit(1, "error", "MissingSystemTool")
  /\ UNCHANGED << script, run, envVars, userVars, cmds, writes, overwritten,
                  fsVars, completed, cleanStart >>

ensure_python_version ==
  /\ pc = "ensure_python_version"
  /\ Enter("ensure_python_version")
  /\ \E found \in BOOLEAN, ok \in BOOLEAN :
       IF found
       THEN cmds' = cmds /\ Goto("ensure_python_version")
       ELSE /\ cmds' = cmds \cup {"uv python install"}
            /\ IF ok
               THEN Goto("ensure_python_version")
               ELSE Exit(1, "error", "CalledProcessError")
  /\ UNCHANGED << script, run, envVars, userVars, writes, overwritten,
                  remediation, fsVars, completed, cleanStart >>

\* the --username branch; without a flag value the code falls through to
\* the interactive loop
get_username ==
  /\ pc = "get_username"
  /\ Enter("get_username")
  /\ \E a \in Argvs :
       /\ argv' = a
       /\ IF a.flag /\ a.hasValue
          THEN IF fullmatch(strip(a.value))
               THEN uname' = strip(a.value) /\ Goto("get_username")
               ELSE uname' = uname /\ Exit(1, "error", "InvalidUsername")
          ELSE /\ pc' = "prompt"
               /\ UNCHANGED << uname, exitCode, final, failure >>
  /\ UNCHANGED << script, run, envVars, stdin, logVars, fsVars, completed,
                  cleanStart >>

\* the user types a line while input() waits
type_line ==
  /\ pc = "prompt"
  /\ stdin = NoLine
  /\ \E s \in Strings : stdin' = s
  /\ UNCHANGED << script, run, pc, envVars, argv, uname, steps, logVars,
                  fsVars, completed, cleanStart, exitCode, final, failure >>

\* one iteration of the while True loop: input() returns the typed line
prompt ==
  /\ pc = "prompt"
  /\ stdin # NoLine
  /\ stdin' = NoLine
  /\ IF fullmatch(strip(stdin))
     THEN uname' = strip(stdin) /\ pc' = After(script, "get_username")
     ELSE uname' = uname /\ pc' = "prompt"
  /\ UNCHANGED << script, run, envVars, argv, steps, logVars, fsVars,
                  completed, cleanStart, exitCode, final, failure >>

\* Ctrl-C while input() waits: the KeyboardInterrupt reaches the handler of
\* the __main__ block, which prints a message and lets the process end
interrupt ==
  /\ pc = "prompt"
  /\ stdin = NoLine
  /\ Exit(0, "interrupted", "none")
  /\ UNCHANGED << script, run, envVars, userVars, steps, logVars, fsVars,
                  completed, cleanStart >>

ensure_config_dir ==
  /\ pc = "ensure_config_dir"
  /\ Enter("ensure_config_dir")
  /\ files' = files \cup {ConfigDir}
  /\ Goto("ensure_config_dir")
  /\ UNCHANGED << script, run, envVars, userVars, logVars, confData,
                  completed, cleanStart >>

\* a plausible slip: the guard is dropped and keys are always regenerated
keypair_exists_never(u) == FALSE

\* a plausible slip: "or" in place of "and" in the guard
keypair_exists_either(u) == PrivPath(u) \in files \/ PubPath(u) \in files

\* priv_path.exists() and pub_path.exists()
keypair_exists(u) == PrivPath(u) \in files /\ PubPath(u) \in files

\* openssl genpkey writes the private key file, openssl pkey then derives
\* the public key file; either command may exit non-zero
generate_keypair ==
  /\ pc = "generate_keypair"
  /\ Enter("generate_keypair")
  /\ IF keypair_exists(uname)
     THEN /\ UNCHANGED << files, cmds, writes, overwritten >>
          /\ Goto("generate_keypair")
     ELSE \E ok1 \in BOOLEAN, ok2 \in BOOLEAN :
            IF ~ok1
            THEN /\ cmds' = cmds \cup {"openssl genpkey"}
                 /\ Write({})
                 /\ Exit(1, "error", "CalledProcessError")
            ELSE /\ cmds' = cmds \cup {"openssl genpkey", "openssl pkey"}
                 /\ IF ok2
                    THEN /\ Write({PrivPath(uname), PubPath(uname)})
                         /\ Goto("generate_keypair")
                    ELSE /\ Write({PrivPath(uname)})
                         /\ Exit(1, "error", "CalledProcessError")
  /\ UNCHANGED << script, run, envVars, userVars, remediation, confData,
                  completed, cleanStart >>

\* a plausible slip: the existence check is dropped
config_exists_never == FALSE

\* config_path.exists()
config_exists == ConfPath \in files

\* a plausible slip: the public key path is recorded as the secret
config_data_pub(u, priv_key_path) ==
  [username |-> u, secret |-> PubPath(u), saveInteraction |-> TRUE]

\* the record yaml.dump serialises
config_data(u, priv_key_path) ==
  [username |-> u, secret |-> priv_key_path, saveInteraction |-> TRUE]

\* import yaml fails when PyYAML is not installed
write_config_file ==
  /\ pc = "write_config_file"
  /\ Enter("write_config_file")
  /\ \E yaml \in BOOLEAN :
       IF ~yaml
       THEN /\ UNCHANGED << confData, files, writes, overwritten >>
            /\ Exit(1, "error", "ModuleNotFoundError")
       ELSE IF config_exists
       THEN /\ UNCHANGED << confData, files, writes, overwritten >>
            /\ Goto("write_config_file")
       ELSE /\ confData' = config_data(uname, PrivPath(uname))
            /\ Write({ConfPath})
            /\ Goto("write_config_file")
  /\ UNCHANGED << script, run, envVars, userVars, cmds, remediation,
                  completed, cleanStart >>

clone_repo ==
  /\ pc = "clone_repo"
  /\ Enter("clone_repo")
  /\ IF RepoPath \in files
     THEN /\ UNCHANGED << files, cmds, writes, overwritten >>
          /\ Goto("clone_repo")
     ELSE /\ cmds' = cmds \cup {"git clone"}
          /\ \E ok \in BOOLEAN :
               IF ok
               THEN Write({RepoPath}) /\ Goto("clone_repo")
               ELSE Write({}) /\ Exit(1, "error", "CalledProcessError")
  /\ UNCHANGED << script, run, envVars, userVars, remediation, confData,
                  completed, cleanStart >>

setup_venv ==
  /\ pc = "setup_venv"
  /\ Enter("setup_venv")
  /\ cmds' = cmds \cup {"uv venv"}
  /\ \E ok \in BOOLEAN :
       IF ok
       THEN Write({VenvPath}) /\ Goto("setup_venv")
       ELSE Write({}) /\ Exit(1, "error", "CalledProcessError")
  /\ UNCHANGED << script, run, envVars, userVars, remediation, confData,
                  completed, cleanStart >>

\* setup_clean.py looks for the uv executable inside the venv first
install_requirements_clean ==
  /\ pc = "install_requirements"
  /\ script = "setup_clean"
  /\ Enter("install_requirements")
  /\ \E uvInVenv \in BOOLEAN, ok \in BOOLEAN :
       IF ~uvInVenv
       THEN cmds' = cmds /\ Exit(1, "error", "uv not found inside venv")
       ELSE /\ cmds' = cmds \cup {"uv pip install"}
            /\ IF ok
               THEN Goto("install_requirements")
               ELSE Exit(1, "error", "CalledProcessError")
  /\ UNCHANGED << script, run, envVars, userVars, writes, overwritten,
                  remediation, fsVars, completed, cleanStart >>

install_requirements_setup ==
  /\ pc = "install_requirements"
  /\ script = "setup"
  /\ Enter("install_requirements")
  /\ cmds' = cmds \cup {"uv pip install"}
  /\ \E ok \in BOOLEAN :
       IF ok
       THEN Goto("install_requirements")
       ELSE Exit(1, "error", "CalledProcessError")
  /\ UNCHANGED << script, run, envVars, userVars, writes, overwritten,
                  remediation, fsVars, completed, cleanStart >>

\* the last line of main(): the success report, then exit status 0
complete ==
  /\ pc = "complete"
  /\ Exit(0, "complete", "none")
  /\ UNCHANGED << script, run, envVars, userVars, steps, logVars, fsVars,
                  completed, cleanStart >>

Next ==
  \/ StartRun
  \/ normalize_env
  \/ bootstrap_dependencies_clean
  \/ bootstrap_dependencies_setup
  \/ assert_env_vars
  \/ assert_commands_exist
  \/ ensure_python_version
  \/ get_username
  \/ type_line
  \/ prompt
  \/ interrupt
  \/ ensure_config_dir
  \/ generate_keypair
  \/ write_config_file
  \/ clone_repo
  \/ setup_venv
  \/ install_requirements_clean
  \/ install_requirements_setup
  \/ complete

Spec == Init /\ [][Next]_vars

TypeOK ==
  /\ script \in Scripts
  /\ run \in 0..MaxRuns
  /\ environ \subseteq EnvVars
  /\ path \subseteq REQUIRED_COMMANDS \cup system_deps
  /\ stdin \in Strings \cup {NoLine}
  /\ uname \in Names \cup {<<>>}
  /\ exitCode \in {0, 1}
  /\ final \in {"none", "complete", "interrupted", "error"}


\* ------------------------------------------------------------ properties

\* the config file is neither removed, nor rewritten, nor changed
ConfigKept ==
  /\ ConfPath \in files'
  /\ confData' = confData
  /\ (ConfPath \in writes' => ConfPath \in writes)

\* C1: once karllm.conf exists, no step of any run writes it again: its
\* content (username and secret path) stays what it was, whatever username
\* the later run was given.
C1_ConfigCreateOnce == [][(ConfPath \in files) => ConfigKept]_vars

\* a run given another username than the one in the existing config file
\* went through write_config_file and finished
C1_Witness ==
  /\ final = "complete"
  /\ "write_config_file" \in Range(steps)
  /\ ConfPath \in files
  /\ ConfPath \notin writes
  /\ confData.username # uname

\* C2: a run whose username already completed a run writes none of
\* u.priv, u.pub and karllm.conf and invokes no key generation command.
C2_Idempotent ==
  uname \in completed =>
    /\ writes \cap {PrivPath(uname), PubPath(uname), ConfPath} = {}
    /\ cmds \cap {"openssl genpkey", "openssl pkey"} = {}
    /\ {PrivPath(uname), PubPath(uname), ConfPath} \subseteq files

\* the second run with the same username has finished
C2_Witness ==
  /\ uname \in completed
  /\ final = "complete"
  /\ {"generate_keypair", "write_config_file"} \subseteq Range(steps)

\* C3: no run invokes a command that installs a required tool.
C3_VerificationIsReadOnly == "pip install uv" \notin cmds

\* C4: no step writes a key file, the config file or the checkout path
\* when that path already exists.
C4_NeverOverwrite == overwritten \cap AllProvisioned = {}

\* rank of a step in the order the specification gives
StepRank(step) ==
  CASE step = "normalize_env" -> 0
    [] step \in {"bootstrap_dependencies", "assert_env_vars",
                 "assert_commands_exist"} -> 1
    [] step = "ensure_python_version" -> 2
    [] step = "get_username" -> 3
    [] step \in {"ensure_config_dir", "generate_keypair"} -> 4
    [] step = "write_config_file" -> 5
    [] step = "clone_repo" -> 6
    [] OTHER -> 7

\* C5: the steps of a run are entered in the order dependency
\* verification, runtime provisioning, username acquisition, identity
\* generation, config persistence, repository clone, environment build.
C5_StepOrder ==
  \A i, j \in 1..Len(steps) : i < j => StepRank(steps[i]) <= StepRank(steps[j])

\* a step of the current run has failed: an external command exited
\* non-zero or the script raised, a probed tool was found missing by the
\* verifying step, or assert_env_vars found a variable unset
ToolProbed ==
  IF script = "setup_clean" THEN "assert_commands_exist" \in Range(steps)
  ELSE "bootstrap_dependencies" \in Range(steps)

RequiredTools == IF script = "setup_clean" THEN REQUIRED_COMMANDS ELSE system_deps

StepFailed ==
  \/ failure # "none"
  \/ ToolProbed /\ ~(RequiredTools \subseteq path)
  \/ "assert_env_vars" \in Range(steps) /\ ~(EnvVars \subseteq environ)

FailFastStep ==
  /\ StepFailed' =>
       (pc' = "exit" /\ exitCode' # 0 /\ final' = "error")
  /\ (pc = "exit" /\ run' = run) =>
       (steps' = steps /\ cmds' = cmds /\ files' = files /\ final' = final)
  /\ files \subseteq files'

\* C6: when a step fails the run is over at once with a non-zero exit
\* status and an error report instead of the success report, no further
\* step is entered in that run, and no path that exists is ever removed.
C6_FailFastNoRollback == [][FailFastStep]_vars

\* a run failed after earlier steps of it had created files
C6_Witness ==
  /\ final = "error"
  /\ exitCode = 1
  /\ failure = "CalledProcessError"
  /\ writes # {}
  /\ writes \subseteq files

\* the text is a non-empty run of word characters, with blanks allowed
\* before and after it only
Conforms(s) ==
  \E i, j \in 1..Len(s) :
    /\ i <= j
    /\ \A k \in 1..Len(s) :
         IF k < i \/ k > j THEN s[k] \in Whitespace
         ELSE s[k] \in WordChars

\* the word characters of the text, blanks dropped
Core(s) == SelectSeq(s, LAMBDA c : c \notin Whitespace)

\* the text has only word characters and is not empty
Pure(s) == s # <<>> /\ \A k \in 1..Len(s) : s[k] \in WordChars

AfterUsername == After(script, "get_username")

UsernameStep ==
  /\ uname' # <<>> => Pure(uname')
  /\ (pc = "prompt" /\ stdin # NoLine) =>
       IF Conforms(stdin)
       THEN pc' = AfterUsername /\ uname' = Core(stdin)
       ELSE pc' = "prompt" /\ final' = "none" /\ uname' = uname
  /\ (pc = "get_username" /\ argv'.flag /\ argv'.hasValue) =>
       IF Conforms(argv'.value)
       THEN pc' = AfterUsername /\ uname' = Core(argv'.value)
       ELSE pc' = "exit" /\ exitCode' = 1 /\ final' = "error"
  /\ (pc = "get_username" /\ ~(argv'.flag /\ argv'.hasValue)) => pc' = "prompt"

OriginalUsernameStep ==
  /\ uname' # <<>> => Pure(uname')
  /\ (pc = "prompt" /\ stdin # NoLine) =>
       IF Pure(stdin)
       THEN pc' = AfterUsername
       ELSE pc' = "prompt" /\ final' = "none"
  /\ (pc = "get_username" /\ argv'.flag /\ argv'.hasValue) =>
       IF Pure(argv'.value)
       THEN pc' = AfterUsername
       ELSE pc' = "exit" /\ exitCode' = 1 /\ final' = "error"

LaterSteps ==
  {"ensure_python_version", "get_username", "ensure_config_dir",
   "generate_keypair", "write_config_file", "clone_repo", "setup_venv",
   "install_requirements"}

\* C8: a run that found required tools missing enters no later step, and
\* when it has ended its exit status is non-zero and a remediation line
\* was printed for every missing tool.
C8_MissingToolAbort ==
  ("bootstrap_dependencies" \in Range(steps) /\ missing0 # {}) =>
    /\ Range(steps) \cap LaterSteps = {}
    /\ pc = "exit" => (exitCode # 0 /\ missing0 \subseteq remediation)

\* C9: a run that started without key files, config file and checkout and
\* reported success leaves both key files of its username, a config file
\* recording that username and the private key path, and the checkout.
C9_EndToEnd ==
  (cleanStart /\ final = "complete") =>
    /\ Provisioned(uname) \subseteq files
    /\ confData.username = uname
    /\ confData.secret = PrivPath(uname)

\* a run from a clean environment reported success
C9_Witness ==
  /\ cleanStart
  /\ final = "complete"
  /\ uname \in Names
  /\ ConfPath \in writes

\* C10: a run interrupted at the prompt ends with exit status 0, without a
\* success or error report, and has entered none of identity generation,
\* config persistence, repository clone and environment build.
C10_InterruptIsCleanAbort ==
  final = "interrupted" =>
    /\ exitCode = 0
    /\ failure = "none"
    /\ Range(steps) \cap {"generate_keypair", "write_config_file",
                          "clone_repo", "setup_venv",
                          "install_requirements"} = {}

\* the identity the config file refers to is complete
ConfigComplete ==
  ConfPath \in files =>
    /\ confData.username \in Names
    /\ confData.secret = PrivPath(confData.username)
    /\ confData.secret \in files
    /\ PubPath(confData.username) \in files

\* the step that creates the config file finds both key files of the
\* username of its run in place
ConfigAfterKeys ==
  (ConfPath \notin files /\ ConfPath \in files') =>
    (/\ confData'.username = uname
     /\ {PrivPath(uname), PubPath(uname)} \subseteq files)

IdentityStep == ConfigComplete' /\ ConfigAfterKeys

\* C11: over any sequence of runs from a clean environment, whenever
\* karllm.conf exists the private key file named by its secret and the
\* public key file of its username exist, and the config file is only
\* created when both key files of the run's username already exist.
C11_ConfigHasIdentity == [][IdentityStep]_vars

\* a run that followed a run which had left files behind wrote the config
\* file
C11_Witness ==
  /\ ~cleanStart
  /\ ConfPath \in writes
  /\ "write_config_file" \in Range(steps)
  /\ PubPath(confData.username) \in files

====
